---- MODULE Spec2Model ----
(***************************************************************************)
(* Model of the AudioGame sound controller                                 *)
(* (src/src/org/CreadoresProgram/AudioGameJS/AudioGame.js).                *)
(*                                                                         *)
(* One controller on one shared AudioContext.  Time is counted in whole    *)
(* ticks of the engine clock; the decoded buffer lasts BufDuration ticks.  *)
(* Every handler of the class is one action; an async function is cut at   *)
(* its awaits: play() runs synchronously up to `await this.loadingProme`   *)
(* or `await this.context.resume()` and is continued by the action that    *)
(* settles that promise.  The host side is modelled by the buffer source   *)
(* nodes it keeps alive (nodes), the engine state and clock, and the       *)
(* `ended` events it delivers for a source that was stopped or ran out.    *)
(*                                                                         *)
(* Spec is the transport (load, play, pause, seek, mode and loop writes,   *)
(* dispose, the clock and the events of the host) with volume and pan at   *)
(* their defaults; ParamSpec adds the writes of volume and pan and         *)
(* setPosition3D to the calls that build and drop the chain; PreloadSpec   *)
(* is the controller with autoplay on which only play() is called;         *)
(* FairSpec states that the awaited promises settle.                       *)
(***************************************************************************)
EXTENDS Integers, FiniteSets, Sequences, TLC

\* ---------------------------------------------------------------- bounds
BufDuration == 2   \* buffer.duration of the decoded resource, in ticks
MaxSrc      == 2   \* buffer source nodes created over the controller's life
MaxPending  == 1   \* play() calls that may be suspended at one time
MaxClock    == 2   \* last tick of the engine clock that is explored

SeekValues  == {-1, 1, BufDuration + 1}

\* Values written to volume and pan (the ranges are [0, 1] and [-1, 1]),
\* and positions passed to setPosition3D, as <<x, y, z>>.
ParamValues == -2..2
Origin      == <<0, 0, 0>>
Positions   == {Origin, <<1, 0, -1>>}
NodeIds     == 1..MaxSrc

VARIABLES
    buffer,        \* this.buffer present (TRUE) or null (FALSE)
    source,        \* this.source: id of a node, 0 for null
    gainNode,      \* this.gainNode is non-null
    pannerNode,    \* this.pannerNode: "none" (null), "stereo" or "3d"
    _loop, _is3D, _autoplay,
    _volume, _pan, _position3D,
    gainValue,     \* this.gainNode.gain.value
    panValue,      \* this.pannerNode.pan.value of a StereoPannerNode
    positionValue, \* positionX/Y/Z of a PannerNode, as <<x, y, z>>
    _currentTime, _duration, _isPlaying, _isLoaded, _startTime,
    loadingProme,  \* "pending", "resolved" or "rejected"
    awaitLoad,     \* play() calls suspended at `await this.loadingProme`
    awaitResume,   \* play() calls suspended at `await this.context.resume()`
    polling,       \* play() calls inside the 50 ms setInterval branch
    ctxState,      \* this.context.state: "running" or "suspended"
    ctxTime,       \* this.context.currentTime
    nodes,         \* the AudioBufferSourceNodes the host keeps alive,
                   \* oldest first
    made,          \* AudioBufferSourceNodes created so far
    out            \* what the last step let out: play() promises resolved
                   \* and rejected, calls of this.onended (the caller is
                   \* taken to have assigned it a function), errors thrown
                   \* out of a source.onended handler, warnings written to
                   \* the console, and the method whose
                   \* pause() stopped the playing source ("none" if none
                   \* did, "idle" for a pause() with nothing to stop while
                   \* the load or a play() is pending), a return of dispose()

vars == <<buffer, source, gainNode, pannerNode, _loop, _is3D, _autoplay,
          _volume, _pan, _position3D, gainValue, panValue, positionValue,
          _currentTime, _duration, _isPlaying, _isLoaded, _startTime,
          loadingProme, awaitLoad, awaitResume, polling, ctxState, ctxTime,
          nodes, made, out>>

\* Nothing let out yet: every handler starts from here.
NoOut == [resolved |-> 0, rejected |-> 0, onended |-> 0, error |-> 0,
          warn |-> 0, by |-> "none", disposed |-> 0]

\* The controller and its host as one record, so that a handler that calls
\* other methods (seek calls pause then play) is the composition of operators.
St ==
    [buffer |-> buffer, source |-> source, gainNode |-> gainNode,
     pannerNode |-> pannerNode, _loop |-> _loop, _is3D |-> _is3D,
     _autoplay |-> _autoplay, _volume |-> _volume, _pan |-> _pan,
     _position3D |-> _position3D, gainValue |-> gainValue,
     panValue |-> panValue, positionValue |-> positionValue,
     _currentTime |-> _currentTime,
     _duration |-> _duration, _isPlaying |-> _isPlaying,
     _isLoaded |-> _isLoaded, _startTime |-> _startTime,
     loadingProme |-> loadingProme, awaitLoad |-> awaitLoad,
     awaitResume |-> awaitResume, polling |-> polling, ctxState |-> ctxState,
     ctxTime |-> ctxTime, nodes |-> nodes, made |-> made,
     out |-> NoOut, full |-> FALSE]

Becomes(s) ==
    /\ buffer' = s.buffer
    /\ source' = s.source
    /\ gainNode' = s.gainNode
    /\ pannerNode' = s.pannerNode
    /\ _loop' = s._loop
    /\ _is3D' = s._is3D
    /\ _autoplay' = s._autoplay
    /\ _volume' = s._volume
    /\ _pan' = s._pan
    /\ _position3D' = s._position3D
    /\ gainValue' = s.gainValue
    /\ panValue' = s.panValue
    /\ positionValue' = s.positionValue
    /\ _currentTime' = s._currentTime
    /\ _duration' = s._duration
    /\ _isPlaying' = s._isPlaying
    /\ _isLoaded' = s._isLoaded
    /\ _startTime' = s._startTime
    /\ loadingProme' = s.loadingProme
    /\ awaitLoad' = s.awaitLoad
    /\ awaitResume' = s.awaitResume
    /\ polling' = s.polling
    /\ ctxState' = s.ctxState
    /\ ctxTime' = s.ctxTime
    /\ nodes' = s.nodes
    /\ made' = s.made
    /\ out' = s.out

\* ------------------------------------------------------------- host nodes
\* A node is "fresh" until start() is called on it, "live" while it
\* produces samples, "stopped" after stop() and "ended" after it ran out of
\* samples; in both an `ended` event is queued, and the host lets go of the
\* node once it has delivered that event.  this.source is the place of a
\* node in nodes, 0 for null.

Min(a, b) == IF a < b THEN a ELSE b
Max(a, b) == IF a > b THEN a ELSE b
Clamp(lo, hi, v) == Max(lo, Min(hi, v))

\* The % of the language: the remainder has the sign of the dividend.
Rem(a, b) == IF a >= 0 THEN a % b ELSE -((-a) % b)

Pending(s) == s.awaitLoad + s.awaitResume + s.polling

\* The host lets go of node i.
Without(ns, i) == SubSeq(ns, 1, i - 1) \o SubSeq(ns, i + 1, Len(ns))

\* source.stop(): a live node stops and the host queues its `ended` event.
StopNode(ns, i) ==
    IF ns[i].st = "live"
    THEN [ns EXCEPT ![i] = [st |-> "stopped", loop |-> FALSE, pos |-> 0,
                            conn |-> ns[i].conn]]
    ELSE ns

\* source.disconnect()
DisconnectNode(ns, i) == [ns EXCEPT ![i].conn = FALSE]

\* source.start(0, offset): the play head is put at offset; a non-looping
\* source started at the end of its buffer has nothing left to play.
StartNode(ns, i, offset) ==
    IF ns[i].loop
    THEN [ns EXCEPT ![i].st = "live", ![i].pos = offset % BufDuration]
    ELSE IF offset >= BufDuration
         THEN [ns EXCEPT ![i].st = "ended", ![i].pos = 0]
         ELSE [ns EXCEPT ![i].st = "live", ![i].pos = offset]

\* One tick of rendering for one node.
AdvanceNode(n) ==
    IF n.st # "live" THEN n
    ELSE IF n.loop THEN [n EXCEPT !.pos = (n.pos + 1) % BufDuration]
    ELSE IF n.pos + 1 >= BufDuration
         THEN [n EXCEPT !.st = "ended", !.pos = 0]
         ELSE [n EXCEPT !.pos = n.pos + 1]

\* ---------------------------------------------------------------- methods
\* #createAndConnectNodes.  play() ignores the value returned and goes on
\* with this.source, which the early return leaves as it was.
CreateAndConnectNodes(s) ==
    IF ~s.buffer THEN [s EXCEPT !.out.warn = 1]
    ELSE
      LET ns1 == IF s.source # 0
                 THEN DisconnectNode(StopNode(s.nodes, s.source), s.source)
                 ELSE s.nodes
      IN IF s.made >= MaxSrc THEN [s EXCEPT !.full = TRUE] ELSE
         [s EXCEPT
            !.made = @ + 1,
            !.nodes = Append(ns1, [st |-> "fresh", loop |-> s._loop,
                                   pos |-> 0, conn |-> TRUE]),
            !.source = Len(ns1) + 1,
            !.gainNode = TRUE,
            !.gainValue = s._volume,
            !.pannerNode = IF s._is3D THEN "3d" ELSE "stereo",
            !.panValue = IF s._is3D THEN 0 ELSE s._pan,
            !.positionValue = IF s._is3D THEN s._position3D ELSE Origin]

\* play() without its test of the transport state: a chain is built on
\* every call.
PlayFinishRebuild(s) ==
    LET currentOffset == s._currentTime
        c == CreateAndConnectNodes(s)
    IN IF c.full THEN c
       ELSE IF c.source = 0 \/ c.nodes[c.source].st # "fresh"
       THEN [c EXCEPT !.out.rejected = @ + 1]
       ELSE [c EXCEPT
               !.nodes = StartNode(c.nodes, c.source, currentOffset),
               !._isPlaying = TRUE,
               !._startTime = IF ~s._loop THEN s.ctxTime - currentOffset
                              ELSE s.ctxTime,
               !.out.resolved = @ + 1]

\* play(), from the test of the transport state to its return.  With no
\* node to start (this.source null), or one that was started before,
\* this.source.start throws and the promise of play() is rejected.
PlayFinish(s) ==
    IF ~s._isPlaying \/ s.source = 0
    THEN LET currentOffset == s._currentTime
             c == CreateAndConnectNodes(s)
         IN IF c.full THEN c
            ELSE IF c.source = 0 \/ c.nodes[c.source].st # "fresh"
            THEN [c EXCEPT !.out.rejected = @ + 1]
            ELSE [c EXCEPT
                    !.nodes = StartNode(c.nodes, c.source, currentOffset),
                    !._isPlaying = TRUE,
                    !._startTime = IF ~s._loop THEN s.ctxTime - currentOffset
                                   ELSE s.ctxTime,
                    !.out.resolved = @ + 1]
    ELSE [s EXCEPT !.out.resolved = @ + 1]

\* play(), from the test of the engine state.
PlayEngine(s) ==
    IF s.ctxState = "suspended"
    THEN [s EXCEPT !.awaitResume = @ + 1]
    ELSE PlayFinish(s)

\* play(), from its first line to its first await or its return.
Play(s) ==
    IF ~s.buffer
    THEN IF s._isLoaded = FALSE
         THEN [s EXCEPT !.awaitLoad = @ + 1]
         ELSE [s EXCEPT !.polling = @ + 1]
    ELSE PlayEngine(s)

\* The live position without the wrap at the end of the buffer.
LivePositionNoWrap(s) == s.ctxTime - s._startTime

\* The position pause() stores and the getter derives.
LivePosition(s) == Rem(s.ctxTime - s._startTime, BufDuration)

\* pause() that stops and disconnects the source but keeps it in
\* this.source.
PauseKeepsSource(s) ==
    IF s.source # 0 /\ s._isPlaying
    THEN [s EXCEPT
            !.nodes = DisconnectNode(StopNode(s.nodes, s.source), s.source),
            !._currentTime = LivePosition(s),
            !._isPlaying = FALSE,
            !.out.by = "pause"]
    ELSE s

\* pause() that does not test this.source before it stops it.
PauseUnguarded(s) ==
    IF s.source = 0
    THEN [s EXCEPT !.out.error = @ + 1]
    ELSE [s EXCEPT
            !.nodes = DisconnectNode(StopNode(s.nodes, s.source), s.source),
            !._currentTime = LivePosition(s),
            !._isPlaying = FALSE,
            !.source = 0,
            !.out.by = "pause"]

\* pause().  A call that finds nothing to stop is let out as "idle" while
\* the load or a play() is still pending.
Pause(s) ==
    IF s.source # 0 /\ s._isPlaying
    THEN [s EXCEPT
            !.nodes = DisconnectNode(StopNode(s.nodes, s.source), s.source),
            !._currentTime = LivePosition(s),
            !._isPlaying = FALSE,
            !.source = 0,
            !.out.by = "pause"]
    ELSE IF s.loadingProme = "pending" \/ Pending(s) > 0
         THEN [s EXCEPT !.out.by = "idle"]
         ELSE s

\* pause() as called from inside the method `who`.
PauseIn(s, who) ==
    LET t == Pause(s)
    IN [t EXCEPT !.out.by = IF @ = "pause" THEN who ELSE s.out.by]

\* get currentTime
CurrentTime(s) ==
    IF s._isPlaying /\ s.source # 0 /\ s.buffer
    THEN LivePosition(s)
    ELSE s._currentTime

\* set currentTime with the value stored as written.
SetCurrentTimeUnclamped(s, value) ==
    LET s1 == [s EXCEPT !._currentTime = value]
    IN IF s1._isPlaying THEN Play(PauseIn(s1, "seek")) ELSE s1

\* set currentTime
SetCurrentTime(s, value) ==
    LET s1 == [s EXCEPT !._currentTime = Clamp(0, s._duration, value)]
    IN IF s1._isPlaying THEN Play(PauseIn(s1, "seek")) ELSE s1

\* set is3D
SetIs3DOf(s, bolval) ==
    IF s._is3D = bolval THEN s
    ELSE LET s1 == [s EXCEPT !._is3D = bolval]
         IN IF s1._isPlaying THEN Play(PauseIn(s1, "is3D")) ELSE s1

\* set loop
SetLoopOf(s, value) ==
    LET s1 == [s EXCEPT !._loop = value]
    IN IF s1.source # 0
       THEN [s1 EXCEPT !.nodes = [s1.nodes EXCEPT ![s1.source].loop = value]]
       ELSE s1

\* set volume with the value stored as written.
SetVolumeUnclamped(s, value) ==
    LET s1 == [s EXCEPT !._volume = value]
    IN IF s1.gainNode THEN [s1 EXCEPT !.gainValue = s1._volume] ELSE s1

\* set volume
SetVolumeOf(s, value) ==
    LET s1 == [s EXCEPT !._volume = Max(0, Min(1, value))]
    IN IF s1.gainNode THEN [s1 EXCEPT !.gainValue = s1._volume] ELSE s1

\* set pan without its test of the mode.
SetPanIn3D(s, value) ==
    LET s1 == [s EXCEPT !._pan = Max(-1, Min(1, value))]
    IN IF s1.pannerNode = "stereo"
       THEN [s1 EXCEPT !.panValue = s1._pan]
       ELSE s1

\* set pan.  A PannerNode has no pan parameter: this.pannerNode.pan is
\* undefined on it and the write to the node is skipped.
SetPanOf(s, value) ==
    IF s._is3D THEN [s EXCEPT !.out.warn = 1]
    ELSE LET s1 == [s EXCEPT !._pan = Max(-1, Min(1, value))]
         IN IF s1.pannerNode = "stereo"
            THEN [s1 EXCEPT !.panValue = s1._pan]
            ELSE s1

\* setPosition3D.  A StereoPannerNode has no positionX: the write to the
\* node is skipped on it.
SetPosition3DOf(s, p) ==
    IF ~s._is3D THEN [s EXCEPT !.out.warn = 1]
    ELSE LET s1 == [s EXCEPT !._position3D = p]
         IN IF s1.pannerNode = "3d"
            THEN [s1 EXCEPT !.positionValue = s1._position3D]
            ELSE s1

\* set autoplay
SetAutoplayOf(s, value) ==
    LET s1 == [s EXCEPT !._autoplay = value]
    IN IF s1._autoplay /\ s1._isLoaded /\ ~s1._isPlaying THEN Play(s1) ELSE s1

\* dispose() that leaves _isLoaded set.
DisposeKeepsLoaded(s) ==
    LET s1 == PauseIn(s, "dispose")
        s2 == IF s1.source # 0
              THEN [s1 EXCEPT !.nodes = DisconnectNode(s1.nodes, s1.source),
                              !.source = 0]
              ELSE s1
    IN [s2 EXCEPT !.gainNode = FALSE, !.gainValue = 1,
                  !.pannerNode = "none", !.panValue = 0,
                  !.positionValue = Origin,
                  !.buffer = FALSE, !.out.disposed = 1]

\* dispose()
DisposeOf(s) ==
    LET s1 == PauseIn(s, "dispose")
        s2 == IF s1.source # 0
              THEN [s1 EXCEPT !.nodes = DisconnectNode(s1.nodes, s1.source),
                              !.source = 0]
              ELSE s1
    IN [s2 EXCEPT !.gainNode = FALSE, !.gainValue = 1,
                  !.pannerNode = "none", !.panValue = 0,
                  !.positionValue = Origin,
                  !.buffer = FALSE, !._isLoaded = FALSE, !.out.disposed = 1]

\* #loadAudio, the part after the last await of the try block.
LoadSuccess(s) ==
    LET s1 == [s EXCEPT !.buffer = TRUE, !._duration = BufDuration,
                        !._isLoaded = TRUE]
        s2 == IF s1._autoplay THEN Play(s1) ELSE s1
    IN [s2 EXCEPT !.loadingProme = "resolved"]

\* #loadAudio, the catch block.
LoadFailure(s) ==
    [s EXCEPT !.buffer = FALSE, !._isLoaded = FALSE,
              !.loadingProme = "rejected"]

\* play() resumed after the load that builds a chain without its test of
\* the transport state.
PlayAfterLoadRebuild(s) ==
    LET s1 == [s EXCEPT !.awaitLoad = @ - 1]
    IN IF s1.loadingProme = "rejected"
       THEN [s1 EXCEPT !.out.rejected = @ + 1]
       ELSE IF s1.ctxState = "suspended"
       THEN [s1 EXCEPT !.awaitResume = @ + 1]
       ELSE PlayFinishRebuild(s1)

\* play() resumed after an await that swallows the rejection of the load.
PlayAfterLoadSwallow(s) ==
    PlayEngine([s EXCEPT !.awaitLoad = @ - 1])

\* play() resumed after `await this.loadingProme`: a rejected load is
\* rethrown, a resolved one falls through to the engine test.
PlayAfterLoad(s) ==
    LET s1 == [s EXCEPT !.awaitLoad = @ - 1]
    IN IF s1.loadingProme = "rejected"
       THEN [s1 EXCEPT !.out.rejected = @ + 1]
       ELSE PlayEngine(s1)

\* play() resumed after `await this.context.resume()` resolved.
PlayAfterResume(s) ==
    PlayFinish([s EXCEPT !.awaitResume = @ - 1, !.ctxState = "running"])

\* play() whose catch of a rejected resume() does not return.
PlayResumeRejectedFallsThrough(s) ==
    PlayFinish([s EXCEPT !.awaitResume = @ - 1])

\* play() resumed in the catch of a rejected resume().
PlayResumeRejected(s) ==
    [s EXCEPT !.awaitResume = @ - 1, !.out.rejected = @ + 1]

\* source.onended without the reset of _currentTime.
OnEndedKeepsTime(s, i) ==
    LET s1 == [s EXCEPT !._isPlaying = FALSE]
        s2 == IF s1.source = 0
              THEN [s1 EXCEPT !.out.error = @ + 1]
              ELSE [s1 EXCEPT !.nodes = DisconnectNode(s1.nodes, s1.source),
                              !.source = 0,
                              !.out.onended = @ + 1]
    IN [s2 EXCEPT !.nodes = Without(s2.nodes, i)]

\* source.onended of node i.  The handler reads this.source, not the node
\* that fired: with this.source null, this.source.disconnect() throws.
OnEnded(s, i) ==
    LET s1 == [s EXCEPT !._isPlaying = FALSE,
                        !._currentTime = IF ~s._loop THEN 0 ELSE @]
        s2 == IF s1.source = 0
              THEN [s1 EXCEPT !.out.error = @ + 1]
              ELSE [s1 EXCEPT !.nodes = DisconnectNode(s1.nodes, s1.source),
                              !.source = 0,
                              !.out.onended = @ + 1]
    IN [s2 EXCEPT !.nodes = Without(s2.nodes, i)]

\* What the caller reads: currentTime, paused, readyState.
currentTime == CurrentTime(St)
paused      == ~_isPlaying
readyState  == IF _isLoaded THEN 4 ELSE 0

\* ------------------------------------------------------------------ state
TypeOK ==
    /\ buffer \in BOOLEAN /\ source \in 0..MaxSrc /\ gainNode \in BOOLEAN
    /\ pannerNode \in {"none", "stereo", "3d"}
    /\ _loop \in BOOLEAN /\ _is3D \in BOOLEAN /\ _autoplay \in BOOLEAN
    /\ _volume \in ParamValues /\ _pan \in ParamValues
    /\ _position3D \in Positions
    /\ gainValue \in ParamValues /\ panValue \in ParamValues
    /\ positionValue \in Positions
    /\ _currentTime \in 0..BufDuration /\ _duration \in {0, BufDuration}
    /\ _isPlaying \in BOOLEAN /\ _isLoaded \in BOOLEAN
    /\ _startTime \in -BufDuration..MaxClock
    /\ loadingProme \in {"pending", "resolved", "rejected"}
    /\ awaitLoad \in Nat /\ awaitResume \in Nat /\ polling \in Nat
    /\ ctxState \in {"running", "suspended"} /\ ctxTime \in 0..MaxClock
    /\ Len(nodes) <= made /\ made \in 0..MaxSrc
    /\ \A i \in DOMAIN nodes :
          /\ nodes[i].st \in {"live", "stopped", "ended"}
          /\ nodes[i].pos \in 0..(BufDuration - 1)
    /\ out \in [resolved : 0..1, rejected : 0..1, onended : 0..1, error : 0..1,
                warn : 0..1,
                by : {"none", "idle", "pause", "seek", "is3D", "dispose"},
                disposed : 0..1]

\* The fields the constructor sets whatever the options are, and the host
\* before any node is made.
Constructed ==
    /\ buffer = FALSE /\ source = 0 /\ gainNode = FALSE /\ pannerNode = "none"
    /\ _position3D = Origin
    /\ gainValue = 1 /\ panValue = 0 /\ positionValue = Origin
    /\ _currentTime = 0 /\ _duration = 0
    /\ _isPlaying = FALSE /\ _isLoaded = FALSE
    /\ _startTime = 0
    /\ loadingProme = "pending"
    /\ awaitLoad = 0 /\ awaitResume = 0 /\ polling = 0
    /\ ctxTime = 0
    /\ nodes = <<>> /\ made = 0
    /\ out = NoOut

\* The constructor with options loop, is3D and autoplay (volume and pan
\* left at their defaults), and the state the shared engine is in.
Init ==
    /\ Constructed
    /\ _loop \in BOOLEAN /\ _is3D \in BOOLEAN /\ _autoplay \in BOOLEAN
    /\ _volume = 1 /\ _pan = 0
    /\ ctxState \in {"running", "suspended"}

\* The constructor with options volume, pan, is3D and autoplay, on a
\* running engine.
ParamInit ==
    /\ Constructed
    /\ _loop = FALSE /\ _is3D \in BOOLEAN /\ _autoplay \in BOOLEAN
    /\ \E v \in ParamValues : _volume = Max(0, Min(1, v))
    /\ \E p \in ParamValues :
          _pan = IF _is3D THEN 0 ELSE Max(-1, Min(1, p))
    /\ ctxState = "running"

\* A call of the caller is explored while the host has a node left for the
\* chain it builds and the calls it leaves suspended stay within MaxPending;
\* a step of the host (the load settles, a suspended play() is resumed)
\* while it has a node left: the play() of autoplay comes on top of the
\* caller's.
Fits(t) == ~t.full /\ Pending(t) <= MaxPending
HostFits(t) == ~t.full

\* A play() that awaits the settled loadingProme is resumed by a microtask:
\* the caller's code may still run before it, an event of the host may not.
LoadRunnable == loadingProme # "pending" /\ awaitLoad > 0

\* The engine resolves every pending resume() in one task: once it runs,
\* the play() calls still suspended on it are resumed by microtasks too.
Runnable == LoadRunnable \/ (ctxState = "running" /\ awaitResume > 0)

\* ---------------------------------------------------------------- actions
LoadOk ==
    /\ loadingProme = "pending"
    /\ LET t == LoadSuccess(St)
       IN HostFits(t) /\ Becomes(t)

LoadFail ==
    /\ loadingProme = "pending"
    /\ Becomes(LoadFailure(St))

ContinueAfterLoad ==
    /\ LoadRunnable
    /\ LET t == PlayAfterLoad(St)
       IN HostFits(t) /\ Becomes(t)

ResumeResolve ==
    /\ awaitResume > 0
    /\ ctxState = "running" \/ ~LoadRunnable
    /\ LET t == PlayAfterResume(St)
       IN HostFits(t) /\ Becomes(t)

\* The host rejects a resume() only while the engine stays suspended.
ResumeReject ==
    /\ awaitResume > 0
    /\ ~Runnable
    /\ ctxState = "suspended"
    /\ Becomes(PlayResumeRejected(St))

PlayCall ==
    /\ LET t == Play(St)
       IN Fits(t) /\ Becomes(t)

PauseCall ==
    /\ Becomes(Pause(St))

SeekTo(v) ==
    LET t == SetCurrentTime(St, v)
    IN Fits(t) /\ Becomes(t)

Seek == \E v \in SeekValues : SeekTo(v)

SetIs3DTo(b) ==
    LET t == SetIs3DOf(St, b)
    IN Fits(t) /\ Becomes(t)

SetIs3D == \E b \in BOOLEAN : SetIs3DTo(b)

SetLoop ==
    \E b \in BOOLEAN : Becomes(SetLoopOf(St, b))

SetAutoplay ==
    \E b \in BOOLEAN :
        /\ LET t == SetAutoplayOf(St, b)
           IN Fits(t) /\ Becomes(t)

Dispose ==
    /\ Becomes(DisposeOf(St))

\* The host delivers the `ended` event queued for node i.
Ended(i) ==
    /\ i \in DOMAIN nodes
    /\ nodes[i].st \in {"stopped", "ended"}
    /\ ~Runnable
    /\ Becomes(OnEnded(St, i))

EndedEvent == \E i \in NodeIds : Ended(i)

\* The engine clock advances by one tick and every live node renders it.
Tick ==
    /\ ctxState = "running"
    /\ ctxTime < MaxClock
    /\ ~Runnable
    /\ Becomes([St EXCEPT !.ctxTime = @ + 1,
                          !.nodes = [i \in DOMAIN nodes |-> AdvanceNode(nodes[i])]])

SetVolumeTo(v) == Becomes(SetVolumeOf(St, v))

SetVolume == \E v \in ParamValues : SetVolumeTo(v)

SetPanTo(p) == Becomes(SetPanOf(St, p))

SetPan == \E p \in ParamValues : SetPanTo(p)

SetPosition3DTo(p) == Becomes(SetPosition3DOf(St, p))

SetPosition3D == \E p \in Positions : SetPosition3DTo(p)

Next ==
    \/ LoadOk
    \/ LoadFail
    \/ ContinueAfterLoad
    \/ ResumeResolve
    \/ ResumeReject
    \/ PlayCall
    \/ PauseCall
    \/ Seek
    \/ SetIs3D
    \/ SetLoop
    \/ SetAutoplay
    \/ Dispose
    \/ EndedEvent
    \/ Tick

Spec == Init /\ [][Next]_vars

\* The controller under writes of volume and pan and calls of
\* setPosition3D, with the calls that build, replace and drop the chain.
ParamNext ==
    \/ LoadOk
    \/ ContinueAfterLoad
    \/ PlayCall
    \/ PauseCall
    \/ SetIs3D
    \/ Dispose
    \/ EndedEvent
    \/ SetVolume
    \/ SetPan
    \/ SetPosition3D

ParamSpec == ParamInit /\ [][ParamNext]_vars

\* A controller constructed with autoplay on which the caller only calls
\* play(), before the load completes and after, and writes loop.
PreloadInit ==
    /\ Constructed
    /\ _loop \in BOOLEAN /\ _is3D \in BOOLEAN /\ _autoplay = TRUE
    /\ _volume = 1 /\ _pan = 0
    /\ ctxState \in {"running", "suspended"}

PreloadNext ==
    \/ PlayCall
    \/ SetLoop
    \/ LoadOk
    \/ ContinueAfterLoad
    \/ ResumeResolve
    \/ Tick

PreloadSpec == PreloadInit /\ [][PreloadNext]_vars

\* The controller with the clock of the engine left where it is: the
\* calls of the caller that call play() or pause() or drop the buffer, and
\* the events of the host, in any order.
SettleNext ==
    \/ LoadOk
    \/ LoadFail
    \/ ContinueAfterLoad
    \/ ResumeResolve
    \/ ResumeReject
    \/ PlayCall
    \/ PauseCall
    \/ Seek
    \/ SetAutoplay
    \/ Dispose
    \/ EndedEvent

\* The load settles, a resume() of the engine settles, and a play() that
\* awaits a settled promise is resumed.
FairSpec ==
    /\ Init /\ [][SettleNext]_vars
    /\ WF_vars(LoadOk \/ LoadFail)
    /\ WF_vars(ContinueAfterLoad)
    /\ WF_vars(ResumeResolve \/ ResumeReject)

\* ----------------------------------------------------------------- claims
\* Everything but what the last step let out.
state == <<buffer, source, gainNode, pannerNode, _loop, _is3D, _autoplay,
           _volume, _pan, _position3D, gainValue, panValue, positionValue,
           _currentTime, _duration, _isPlaying, _isLoaded, _startTime,
           loadingProme, awaitLoad, awaitResume, polling, ctxState, ctxTime,
           nodes, made>>

\* Node n is what source.start(0, offset) makes of a new connected node.
StartedAt(n, offset, looping) ==
    /\ n.conn
    /\ n.loop = looping
    /\ IF ~looping /\ offset >= BufDuration
       THEN n.st = "ended"
       ELSE n.st = "live" /\ n.pos = offset % BufDuration

Connected == {i \in DOMAIN nodes : nodes[i].conn}

\* The host delivers the `ended` event of a node that stop() stopped.
StaleEnded == \E i \in NodeIds : Ended(i) /\ nodes[i].st = "stopped"

\* C1: a write of currentTime = v stores clamp(v, 0, duration); on a playing
\* controller the chain is restarted there, so the new source is started at
\* clamp(v) and the read that follows returns clamp(v); on a paused one
\* nothing else changes.
C1_SeekSetsOffset ==
    [][\A v \in SeekValues :
         SeekTo(v) =>
           LET c == Clamp(0, _duration, v)
           IN /\ _currentTime' = c
              /\ IF _isPlaying
                 THEN /\ _isPlaying' /\ source' # 0
                      /\ StartedAt(nodes'[source'], c, _loop)
                      /\ c < BufDuration => currentTime' = c
                 ELSE UNCHANGED <<buffer, source, gainNode, pannerNode, _loop,
                                  _is3D, _autoplay, _duration, _isPlaying,
                                  _isLoaded, _startTime, loadingProme,
                                  awaitLoad, awaitResume, polling, ctxState,
                                  ctxTime, nodes, made>>]_vars

\* C2: pause() on a playing controller leaves currentTime at the position
\* read at that instant, and the host event that follows the pause (a tick
\* of the clock, the `ended` event of the source that pause() stopped) does
\* not change it.
C2_PauseKeepsPosition ==
    [][/\ PauseCall /\ _isPlaying /\ source # 0 => currentTime' = currentTime
       /\ out.by = "pause" /\ (Tick \/ StaleEnded)
            => currentTime' = currentTime]_vars

\* C3: while a source started at offset p keeps playing, currentTime is the
\* play head of that source, (p + d) mod duration after d ticks, looping or
\* not.
C3_ResumeContinues ==
    _isPlaying /\ source # 0 /\ nodes[source].st = "live"
        => currentTime = nodes[source].pos

\* C4: play() on a playing controller builds nothing, changes no state and
\* resolves; at most one source node is connected to the output at any time.
C4_PlayIdempotent ==
    /\ [](Cardinality(Connected) <= 1)
    /\ [][_isPlaying /\ source # 0 /\ PlayCall
            => UNCHANGED state /\ out'.resolved = 1 /\ out'.rejected = 0]_vars

\* A play() has just resolved on a source that had been started earlier and
\* has moved on since.
C4_Witness ==
    /\ _isPlaying /\ source # 0 /\ out.resolved = 1
    /\ nodes[source].st = "live"
    /\ nodes[source].pos # _currentTime % BufDuration

\* C5: the `ended` event of the playing, non-looping source leaves the
\* controller paused at currentTime 0, with this.source null, no node
\* connected, and one call of the caller's onended.
C5_NaturalEnd ==
    [][\A i \in NodeIds :
         i = source /\ _isPlaying /\ ~_loop /\ Ended(i) =>
           /\ paused' /\ currentTime' = 0 /\ source' = 0
           /\ nodes' = Without(nodes, i)
           /\ \A j \in DOMAIN nodes' : ~nodes'[j].conn
           /\ out'.onended = 1 /\ out'.error = 0]_vars

\* The only source ever created has ended and its handler found it in
\* this.source.
C5_Witness ==
    /\ made = 1 /\ nodes = <<>> /\ out.onended = 1
    /\ ~_loop /\ paused /\ currentTime = 0

\* C6: a write of is3D that changes it on a playing controller leaves it
\* playing on a rebuilt chain at the position read before the write, and
\* the `ended` event of the source the implicit pause stopped, delivered
\* next, does not stop it; a write of the value is3D has changes nothing.
C6_ModeSwitchKeepsOffset ==
    [][/\ \A b \in BOOLEAN :
            SetIs3DTo(b) =>
              IF b = _is3D THEN UNCHANGED state
              ELSE _isPlaying =>
                     /\ _isPlaying' /\ source' # 0
                     /\ pannerNode' = (IF b THEN "3d" ELSE "stereo")
                     /\ currentTime' = currentTime
       /\ out.by = "is3D" /\ StaleEnded => _isPlaying']_vars

\* C7: a load that succeeds right after dispose() returned creates no node,
\* does not start playback and lets nothing out.
C7_DisposeDiscardsLoad ==
    [][LoadOk /\ out.disposed = 1
         => /\ UNCHANGED <<nodes, made, gainNode, pannerNode, source>>
            /\ ~_isPlaying'
            /\ out' = NoOut]_vars

\* C8: dispose() leaves the controller paused, without a source and with
\* readyState 0, and the call or event that follows it (a play(), a write of
\* autoplay, the resumption of a suspended play(), the late completion of
\* the load) does not change that, nor resolves a play().
C8_DisposalTerminal ==
    [][out.disposed = 1 =>
         /\ paused /\ source = 0 /\ readyState = 0
         /\ paused' /\ source' = 0 /\ readyState' = 0
         /\ out'.resolved = 0]_vars

\* C9: after a failed load the buffer stays absent and readyState 0, the
\* controller never plays and never builds a chain, no play() resolves or
\* gets past the load, and every play() is suspended on the rejected load
\* and rejected when it resumes.
C9_FailedLoadDisables ==
    /\ [](loadingProme = "rejected" =>
            /\ ~buffer /\ readyState = 0 /\ paused /\ source = 0
            /\ made = 0 /\ nodes = <<>> /\ pannerNode = "none"
            /\ out.resolved = 0 /\ awaitResume = 0 /\ polling = 0)
    /\ [][loadingProme = "rejected" =>
            /\ PlayCall => awaitLoad' = awaitLoad + 1
            /\ ContinueAfterLoad =>
                  out'.rejected = 1 /\ awaitLoad' = awaitLoad - 1]_vars

\* A play() has just been rejected by the failed load.
C9_Witness ==
    loadingProme = "rejected" /\ out.rejected = 1

\* C10: a play() whose resume() is rejected is rejected and changes nothing
\* of the transport (paused, no source, no node built, _currentTime kept);
\* a play() whose resume() succeeds on the paused, loaded controller starts
\* a source at _currentTime.
C10_EngineSuspended ==
    /\ [][ResumeReject =>
            /\ out'.rejected = 1 /\ out'.resolved = 0
            /\ paused' /\ source' = 0
            /\ UNCHANGED <<_isPlaying, source, nodes, made, gainNode,
                           pannerNode, _currentTime, _startTime, ctxState>>]_vars
    /\ [][buffer /\ paused /\ ResumeResolve =>
            /\ _isPlaying' /\ source' # 0 /\ out'.resolved = 1
            /\ _currentTime' = _currentTime
            /\ StartedAt(nodes'[source'], _currentTime, _loop)]_vars

\* A play() has just been rejected on the loaded controller with the engine
\* still suspended.
C10_Witness ==
    /\ out.rejected = 1 /\ ctxState = "suspended"
    /\ loadingProme = "resolved" /\ buffer /\ _currentTime # 0

\* C11: pause() while the load is pending throws nothing and changes no
\* state; the controller is paused as long as the load is pending, and on
\* one without autoplay and without a play() issued the load that resolves
\* leaves it paused, with no chain built.
C11_PauseBeforeLoad ==
    /\ [](loadingProme = "pending" => paused /\ source = 0 /\ made = 0)
    /\ [][loadingProme = "pending" /\ PauseCall
            => UNCHANGED state /\ out' = [NoOut EXCEPT !.by = "idle"]]_vars
    /\ [][~_autoplay /\ awaitLoad = 0 /\ LoadOk
            => paused' /\ source' = 0 /\ made' = 0 /\ out' = NoOut]_vars

\* pause() has just returned on a controller without autoplay whose load is
\* pending and on which no play() was issued.
C11_Witness ==
    /\ out.by = "idle" /\ loadingProme = "pending"
    /\ ~_autoplay /\ awaitLoad = 0

\* C12: the load that completes with the engine running on a controller
\* with autoplay and loop leaves it playing a source started at 0 at that
\* clock time T0, and while that first source keeps playing currentTime is
\* its play head, (t - T0) mod duration at clock time t.
C12_AutoplayLoopPosition ==
    /\ [][_autoplay /\ _loop /\ ctxState = "running" /\ LoadOk
            => /\ ~paused' /\ source' # 0 /\ made' = 1
               /\ StartedAt(nodes'[source'], 0, TRUE)
               /\ _startTime' = ctxTime /\ currentTime' = 0]_vars
    /\ [](/\ made = 1 /\ _loop /\ _currentTime = 0
          /\ ~paused /\ source # 0
          /\ nodes[source].st = "live" /\ nodes[source].loop
          => /\ currentTime = nodes[source].pos
             /\ currentTime = (ctxTime - _startTime) % BufDuration)

\* The looping source that autoplay started has played the buffer once
\* through and is back at its start.
C12_Witness ==
    /\ _autoplay /\ _loop /\ made = 1 /\ ~paused /\ source # 0
    /\ nodes[source].st = "live" /\ nodes[source].loop
    /\ ctxTime - _startTime = BufDuration /\ currentTime = 0

\* C13: a write of pan while is3D is set, and a call of setPosition3D
\* while it is not, throw nothing and change nothing: the stored pan and
\* position, the values on the nodes and all other state stay as they
\* were, and only a warning is written.
C13_MismatchedWriteIgnored ==
    [][/\ \A p \in ParamValues :
            _is3D /\ SetPanTo(p)
               => UNCHANGED state /\ out' = [NoOut EXCEPT !.warn = 1]
       /\ \A q \in Positions :
            ~_is3D /\ SetPosition3DTo(q)
               => UNCHANGED state /\ out' = [NoOut EXCEPT !.warn = 1]]_vars

\* A write has just been ignored with a warning on a controller that plays
\* in 3D and keeps a pan stored in stereo mode.
C13_Witness ==
    /\ out.warn = 1 /\ _is3D /\ ~paused /\ pannerNode = "3d"
    /\ _pan # 0 /\ _position3D # Origin /\ positionValue = _position3D

\* C14: the stored volume is in [0, 1] and the stored pan in [-1, 1]; a
\* write of volume stores the value, or the bound nearest to it, and so
\* does a write of pan in stereo mode; the gain node and the stereo panner
\* held by the controller carry the stored values.
C14_ParamRange ==
    /\ [](/\ 0 <= _volume /\ _volume <= 1
          /\ -1 <= _pan /\ _pan <= 1
          /\ gainNode => gainValue = _volume
          /\ pannerNode = "stereo" => panValue = _pan)
    /\ [][/\ \A v \in ParamValues :
                SetVolumeTo(v) =>
                  _volume' = (IF v < 0 THEN 0 ELSE IF v > 1 THEN 1 ELSE v)
           /\ \A p \in ParamValues :
                ~_is3D /\ SetPanTo(p) =>
                  _pan' = (IF p < -1 THEN -1 ELSE IF p > 1 THEN 1 ELSE p)]_vars

\* A playing stereo chain carries a volume and a pan stored at the lower
\* bounds of their ranges.
C14_Witness ==
    /\ ~paused /\ gainNode /\ pannerNode = "stereo"
    /\ _volume = 0 /\ gainValue = 0 /\ _pan = -1 /\ panValue = -1

\* C15: the `ended` event the host delivers for a source that stop()
\* stopped changes neither _isPlaying nor _currentTime nor the source the
\* controller holds and its connection, calls no onended and throws
\* nothing.
C15_StaleEndedInert ==
    [][StaleEnded =>
         /\ _isPlaying' = _isPlaying /\ _currentTime' = _currentTime
         /\ source = 0 => source' = 0
         /\ source # 0 => source' # 0 /\ nodes'[source'] = nodes[source]
         /\ out'.onended = 0 /\ out'.error = 0]_vars

\* C16: after every step the controller holds a source iff it is playing;
\* the source it holds is the one connected node, started and not stopped;
\* and it plays only with a buffer.
C16_ChainIffPlaying ==
    /\ _isPlaying <=> source # 0
    /\ source # 0 =>
          /\ nodes[source].conn
          /\ nodes[source].st \in {"live", "ended"}
          /\ Connected = {source}
    /\ source = 0 => Connected = {}
    /\ _isPlaying => buffer /\ _isLoaded

\* The controller plays on a rebuilt chain while the host still keeps
\* the source of the chain before it, stopped and disconnected.
C16_Witness ==
    /\ _isPlaying /\ source # 0 /\ Len(nodes) > 1
    /\ nodes[source].st = "live"
    /\ \E i \in DOMAIN nodes : nodes[i].st = "stopped"

\* C17: on a controller with autoplay on which no transport command but
\* play() is called, before the load completes or after, at most one source
\* is ever created; no play() is
\* rejected; and once the load has resolved and no play() is left
\* suspended, one source has been created and started, it is the one
\* connected node, and the controller plays.
C17_PreloadPlaySerialized ==
    /\ [](made <= 1 /\ Len(nodes) <= 1 /\ out.rejected = 0)
    /\ [](loadingProme = "resolved" /\ Pending(St) = 0
            => /\ made = 1 /\ ~paused /\ source = 1
               /\ nodes[1].conn /\ nodes[1].st \in {"live", "ended"})
    /\ [][awaitLoad > 0 /\ ContinueAfterLoad /\ ctxState = "running"
            => out'.resolved = 1 /\ UNCHANGED <<made, nodes, source>>]_vars

\* Two play() calls were suspended on the resume of the engine; the first
\* has just been resumed and has built the chain, the second is still to
\* be resumed.
C17_Witness ==
    /\ loadingProme = "resolved" /\ awaitLoad = 0 /\ awaitResume = 1
    /\ ctxState = "running" /\ made = 1 /\ ~paused /\ out.resolved = 1

\* C18: a play() is suspended on the resume of the engine and pause() is
\* called after it; the resume that settles next leaves the controller
\* paused, without a source.
C18_LatePauseNotLost ==
    [][out.by = "idle" /\ awaitResume > 0 /\ ctxState = "suspended"
         /\ ResumeResolve => paused' /\ source' = 0]_vars

\* C19: _currentTime is in [0, _duration] and currentTime, live or
\* stored, in [0, _duration]; a tick of the clock during which a looping
\* source keeps playing advances currentTime by one modulo the duration.
C19_PositionRange ==
    /\ [](/\ 0 <= _currentTime /\ _currentTime <= _duration
          /\ 0 <= currentTime /\ currentTime <= _duration)
    /\ [][(/\ Tick /\ ~paused /\ source # 0
           /\ nodes[source].st = "live" /\ nodes[source].loop)
          => currentTime' = (currentTime + 1) % BufDuration]_vars

\* A looping source plays at the last tick of the clock, past the point
\* where it wrapped, and a position was stored at the end of the buffer.
C19_Witness ==
    /\ ~paused /\ source # 0 /\ nodes[source].loop
    /\ ctxTime = MaxClock /\ ctxTime - _startTime >= BufDuration
    /\ currentTime < BufDuration /\ _currentTime = _duration

\* C20: no play() enters the polling branch (the buffer is never absent
\* with _isLoaded set), and as long as play() calls are suspended on the
\* load, or on the resume of the engine, suspended calls keep being
\* resumed, oldest first, each to resolve, to be rejected or to move from
\* the load to the resume; a behaviour is let off once the host has no
\* node left for a chain.
C20_PlaySettles ==
    /\ [](polling = 0)
    /\ [](~buffer => ~_isLoaded)
    /\ \/ []<><<ContinueAfterLoad>>_vars
       \/ <>[](awaitLoad = 0 \/ made = MaxSrc)
    /\ \/ []<><<ResumeResolve \/ ResumeReject>>_vars
       \/ <>[](awaitResume = 0 \/ made = MaxSrc)

\* A play() called after dispose(), with the load resolved before it, has
\* awaited the settled load and has just been rejected for want of a
\* buffer.
C20_Witness ==
    /\ loadingProme = "resolved" /\ ~buffer /\ ~_isLoaded
    /\ out.rejected = 1 /\ out.warn = 1 /\ Pending(St) = 0

====
